---- MODULE Spec2Model ----
(***************************************************************************)
(* State-machine model of the editor side of the equalizer                 *)
(* (Source/PluginEditor.cpp): the 60 Hz timerCallback of                   *)
(* ResponseCurveComponent (two PathProducer::process calls, the            *)
(* parametersChanged compare-and-set, updateChain, repaint), paint's       *)
(* response-curve evaluation, and the two threads it shares state with:   *)
(* the audio callback that pushes blocks into the sample FIFOs and the     *)
(* thread that changes a parameter and notifies the listener.              *)
(*                                                                         *)
(* The FIFO, the FFT data generator, the path generator, the coefficient   *)
(* factory and updateCoefficients / updateCutFilter are declared in        *)
(* PluginProcessor.h / PluginEditor.h, which are not part of the source    *)
(* tree at hand; those parts follow the design document (sections 3-5).    *)
(***************************************************************************)
EXTENDS Integers, Sequences, FiniteSets, TLC

(***************************************************************************)
(* Bounds of the model.                                                    *)
(***************************************************************************)
MaxChanges == 2      \* parameter changes made during a run
MaxBlocks == 3       \* audio callbacks (one block per channel each)
MaxReads == 1        \* reads of a section by a concurrent reader
FifoCapacity == 3    \* slots of a sample FIFO (capacity - 1 are usable)
QueueCapacity == 2   \* frames / paths the FFT and path queues hold
WindowLen == 2       \* W, samples of the rolling analysis window
BlockLen == 1        \* samples of one block pushed by the audio callback
MaxGain == 1         \* peak-gain values 0..MaxGain
MaxSlope == 1        \* cut slopes 0..MaxSlope that are chosen (at most 3)
NumFreqs == 2        \* frequencies paint evaluates (the area's width)

(***************************************************************************)
(* Program constants.                                                      *)
(***************************************************************************)
NumChannels == 2     \* leftPathProducer, rightPathProducer
NumCutSections == 4  \* lowCut.get<0..3>, highCut.get<0..3>

Min(a, b) == IF a < b THEN a ELSE b
Max(a, b) == IF a > b THEN a ELSE b

Channels == 1..NumChannels

\* both path producers constructed on the right channel's FIFO
fifoOfRightTwice(c) == NumChannels

\* both path producers are given the left FIFO
fifoOfLeftTwice(c) == 1

\* lines 162-163: leftPathProducer (leftChannelFifo), rightPathProducer
\* (rightChannelFifo): the FIFO the path producer of channel c pops
fifoOf(c) == c
CutIdx == 0..(NumCutSections - 1)
Slopes == 0..Min(MaxSlope, NumCutSections - 1)

(***************************************************************************)
(* What the other threads do during one run is bounded by a workload:      *)
(* the parameter changes, the audio callbacks and the concurrent reads of  *)
(* the run.  Each workload stresses one of the three and keeps the others  *)
(* present.                                                                *)
(***************************************************************************)
Workloads ==
    {[changes |-> MaxChanges, blocks |-> 0, reads |-> 0],
     [changes |-> 1, blocks |-> MaxBlocks, reads |-> 0],
     [changes |-> 1, blocks |-> 0, reads |-> MaxReads]}

VARIABLES
    apvts,              \* parameter storage (audioProcessor.apvts)
    parametersChanged,  \* juce::Atomic<bool> parametersChanged
    monoChain,          \* the editor's filter chain: handles and bypass flags
    coefHeap,           \* coefficient objects, by handle
    tpc,                \* position of timerCallback
    tch,                \* channel whose PathProducer::process is running
    chainSettings,      \* updateChain's local chainSettings
    fifoBuf,            \* per channel: the ring's slots
    fifoWrite,          \* per channel: write index
    fifoRead,           \* per channel: read index
    tempBuffer,         \* process's local tempBuffer
    monoBuffer,         \* per channel: the rolling window
    fftQueue,           \* per channel: FFT frames not yet pulled
    pathQueue,          \* per channel: paths not yet pulled
    fftPath,            \* per channel: leftChannelFFTPath of the producer
    repaintPending,     \* repaint() was called and paint has not run yet
    mags,               \* paint's mags vector
    apc,                \* position of the audio callback
    ach,                \* channel the audio callback is pushing to
    ablock,             \* block the audio callback is pushing
    nextBlock,          \* number of the next block
    cpc,                \* position of the parameter-changing thread
    nChanges,           \* parameter changes made so far
    limits,             \* the workload of the run
    rpc,                \* position of the concurrent reader
    rdSec,              \* the section it reads
    rdPtr,              \* the handle it loaded (0: none)
    rdCoef,             \* the values it has read
    nReads,             \* reads begun so far
    rdAtLoad,           \* history: the set the section held at the load
    notifications,      \* history: parameterValueChanged calls
    recomputes,         \* history: updateChain calls made by timerCallback
    notifiedSinceClear, \* history: a notification came after the last clear
    pushedOK,           \* history: per channel, blocks whose push succeeded
    popped,             \* history: per channel, blocks process popped
    pushedAtEntry       \* history: pushes done when process was entered

chainVars == <<monoChain, coefHeap>>
flagVars == <<apvts, parametersChanged>>
timerVars == <<tpc, tch, chainSettings, tempBuffer>>
fifoVars == <<fifoBuf, fifoWrite, fifoRead>>
analysisVars == <<monoBuffer, fftQueue, pathQueue, fftPath>>
paintVars == <<repaintPending, mags>>
audioVars == <<apc, ach, ablock, nextBlock>>
changerVars == <<cpc, nChanges, limits>>
readerVars == <<rpc, rdSec, rdPtr, rdCoef, nReads, rdAtLoad>>
histVars == <<notifications, recomputes, notifiedSinceClear, pushedOK, popped,
              pushedAtEntry>>

vars == <<chainVars, flagVars, timerVars, fifoVars, analysisVars, paintVars,
          audioVars, changerVars, readerVars, histVars>>

(***************************************************************************)
(* Chain settings and the coefficient factory.  A coefficient object is    *)
(* abstracted to two of its values, b0 and a1, both functions of the       *)
(* settings it was made from; each alone identifies those settings, so a   *)
(* set mixing values of two objects is recognisable.                       *)
(***************************************************************************)
ChainSettings ==
    [peakGain : 0..MaxGain, lowCutSlope : Slopes, highCutSlope : Slopes]

DefaultSettings == [peakGain |-> 0, lowCutSlope |-> 0, highCutSlope |-> 0]

getChainSettings(a) ==
    [peakGain |-> a.peakGain, lowCutSlope |-> a.lowCutSlope,
     highCutSlope |-> a.highCutSlope]

Coefficients(stamp) == [b0 |-> stamp, a1 |-> stamp + 100]

\* the pass-through object a default-constructed filter section holds
DefaultCoefficients == Coefficients(0)

makePeakFilter(cs) == Coefficients(1 + cs.peakGain)

\* slope s gives s + 1 second-order sections
makeCutFilter(slope) ==
    [i \in 1..(slope + 1) |-> Coefficients(10 * (slope + 1) + (i - 1))]

makeLowCutFilter(cs) == makeCutFilter(cs.lowCutSlope)

makeHighCutFilter(cs) == makeCutFilter(cs.highCutSlope)

\* every coefficient set the factory can make, and the default one
CompleteSets ==
    {DefaultCoefficients}
        \cup {makePeakFilter(cs) : cs \in ChainSettings}
        \cup UNION {{makeCutFilter(s)[i] : i \in 1..(s + 1)} : s \in Slopes}

(***************************************************************************)
(* The filter chain holds, per section, a handle of a coefficient object   *)
(* and a bypass flag.  A state of chain and heap is a record ch, hp.       *)
(***************************************************************************)
Sections ==
    {<<"Peak", 0>>} \cup {<<"LowCut", i>> : i \in CutIdx}
        \cup {<<"HighCut", i>> : i \in CutIdx}

SectionHandle(ch, sec) ==
    CASE sec[1] = "Peak" -> ch.peak
      [] sec[1] = "LowCut" -> ch.lowCut[sec[2]]
      [] sec[1] = "HighCut" -> ch.highCut[sec[2]]

SectionBypassed(ch, sec) ==
    CASE sec[1] = "Peak" -> ch.peakBypassed
      [] sec[1] = "LowCut" -> ch.lowCutBypassed[sec[2]]
      [] sec[1] = "HighCut" -> ch.highCutBypassed[sec[2]]

\* room for the objects the sections hold, those being made and one a
\* reader holds on to
Handles == 1..(2 * Cardinality(Sections))

\* a heap slot that holds no object
NoObject == [b0 |-> -1, a1 |-> -1]

ChainHandles(ch) == {SectionHandle(ch, sec) : sec \in Sections}

\* the chain as constructed: every section its own pass-through object
ConstructedChain ==
    [ch |-> [peak |-> 1, peakBypassed |-> FALSE,
             lowCut |-> [i \in CutIdx |-> 2 + i],
             lowCutBypassed |-> [i \in CutIdx |-> FALSE],
             highCut |-> [i \in CutIdx |-> 2 + NumCutSections + i],
             highCutBypassed |-> [i \in CutIdx |-> FALSE]],
     hp |-> [h \in Handles |->
                IF h <= 1 + 2 * NumCutSections THEN DefaultCoefficients
                ELSE NoObject],
     pin |-> {}]

RECURSIVE Smallest(_, _)
\* the n smallest members of S, in order
Smallest(S, n) ==
    IF n = 0 THEN <<>>
    ELSE LET m == CHOOSE x \in S : \A y \in S : x <= y
         IN  <<m>> \o Smallest(S \ {m}, n - 1)

\* the one member of a singleton set: Only({e(x) : x \in {v}}) is e with x
\* bound to the value of v, which is then computed once
Only(S) == CHOOSE x \in S : TRUE

FreeHandles(st, n) == Smallest({h \in Handles : st.hp[h] = NoObject}, n)

\* the factory's new objects are put on the heap; their handles returned
Allocate(st, objs) ==
    Only({[st |-> [s EXCEPT !.hp = [h \in Handles |->
                    IF \E i \in 1..Len(objs) : handles[i] = h
                    THEN objs[CHOOSE i \in 1..Len(objs) : handles[i] = h]
                    ELSE s.hp[h]]],
           handles |-> handles] :
          s \in {st}, handles \in {FreeHandles(st, Len(objs))}})

\* an object that no section and no reader refers to any more is gone
Release(st) ==
    Only({[s EXCEPT !.hp = [h \in Handles |->
             IF h \in ChainHandles(s.ch) \cup s.pin THEN s.hp[h]
             ELSE NoObject]] : s \in {st}})

\* a copy of the replacement's values into the object the section holds
\* (field-by-field mutation of a published object)
updateCoefficientsInPlace(st, sec, replacement) ==
    [st EXCEPT !.hp[SectionHandle(st.ch, sec)] = st.hp[replacement]]

\* publish-by-pointer-swap: the section's handle is replaced, the object
\* it held is left as it is
updateCoefficients(st, sec, replacement) ==
    CASE sec[1] = "Peak" -> [st EXCEPT !.ch.peak = replacement]
      [] sec[1] = "LowCut" -> [st EXCEPT !.ch.lowCut[sec[2]] = replacement]
      [] sec[1] = "HighCut" -> [st EXCEPT !.ch.highCut[sec[2]] = replacement]

RECURSIVE SwapSections(_, _, _, _)
\* sections 0..n-1 of the cut stage get handles[1..n]
SwapSections(st, stage, handles, n) ==
    IF n = 0 THEN st
    ELSE SwapSections(updateCoefficients(st, <<stage, n - 1>>, handles[n]),
                      stage, handles, n - 1)

\* sections 0..slope get the new coefficients and are active, the rest
\* are bypassed
updateCutFilter(st, stage, handles, slope) ==
    LET swapped == SwapSections(st, stage, handles, slope + 1)
        byp == [i \in CutIdx |-> i > slope]
    IN  IF stage = "LowCut" THEN [swapped EXCEPT !.ch.lowCutBypassed = byp]
        ELSE [swapped EXCEPT !.ch.highCutBypassed = byp]

\* lines 252-253
UpdatePeak(st, cs) ==
    Only({Release(updateCoefficients(a.st, <<"Peak", 0>>, a.handles[1])) :
          a \in {Allocate(st, <<makePeakFilter(cs)>>)}})

\* lines 254-255
UpdateLowCut(st, cs) ==
    Only({Release(updateCutFilter(a.st, "LowCut", a.handles,
                                  cs.lowCutSlope)) :
          a \in {Allocate(st, makeLowCutFilter(cs))}})

\* lines 256-257
UpdateHighCut(st, cs) ==
    Only({Release(updateCutFilter(a.st, "HighCut", a.handles,
                                  cs.highCutSlope)) :
          a \in {Allocate(st, makeHighCutFilter(cs))}})

\* the whole of updateChain, as the constructor runs it
updateChain(st, cs) == UpdateHighCut(UpdateLowCut(UpdatePeak(st, cs), cs), cs)

\* the coefficient values and bypass flag a section holds
SectionView(ch, hp, sec) ==
    [coef |-> hp[SectionHandle(ch, sec)], bypassed |-> SectionBypassed(ch, sec)]

ChainView(ch, hp) == [sec \in Sections |-> SectionView(ch, hp, sec)]

(***************************************************************************)
(* The sample FIFO: a ring of FifoCapacity slots with a write index the    *)
(* producer advances and a read index the consumer advances; one slot      *)
(* stays unused to tell full from empty.                                   *)
(***************************************************************************)
Block(id) == [i \in 1..BlockLen |-> (id - 1) * BlockLen + i]

EmptyBlock == [i \in 1..BlockLen |-> 0]

getNumCompleteBuffersAvailable(w, r) == (w - r + FifoCapacity) % FifoCapacity

getFreeSpace(w, r) == FifoCapacity - 1 - getNumCompleteBuffersAvailable(w, r)

\* the unread blocks, oldest first
RECURSIVE Unread(_, _, _)
Unread(buf, w, r) ==
    IF r = w THEN <<>>
    ELSE <<buf[r]>> \o Unread(buf, w, (r + 1) % FifoCapacity)

(***************************************************************************)
(* The rolling window.  FloatVectorOperations::copy moves num values from  *)
(* src.. to dst.. of the same buffer, one value after the other; the order *)
(* in which it visits the values is not fixed by its contract, and the     *)
(* two ranges overlap whenever the block is shorter than half the window.  *)
(***************************************************************************)
CopyOrders == {"ascending", "descending"}

RECURSIVE CopyAscending(_, _, _, _, _)
CopyAscending(buf, dst, src, k, num) ==
    IF k >= num THEN buf
    ELSE CopyAscending([buf EXCEPT ![dst + k + 1] = buf[src + k + 1]],
                       dst, src, k + 1, num)

RECURSIVE CopyDescending(_, _, _, _)
CopyDescending(buf, dst, src, k) ==
    IF k <= 0 THEN buf
    ELSE CopyDescending([buf EXCEPT ![dst + k] = buf[src + k]],
                        dst, src, k - 1)

\* copy (buf + dst, buf + src, num), offsets from 0
copy(buf, dst, src, num, order) ==
    IF order = "ascending" THEN CopyAscending(buf, dst, src, 0, num)
    ELSE CopyDescending(buf, dst, src, num)

\* copy (buf + dst, block, size): the source is another buffer
copyFrom(buf, dst, block, size) ==
    [i \in 1..Len(buf) |->
        IF i > dst /\ i <= dst + size THEN block[i - dst] ELSE buf[i]]

\* lines 196-203: shift the window left by size, put the block at its end
shiftAndAppend(window, block, order) ==
    LET size == Len(block)
        shifted == copy(window, 0, size, Len(window) - size, order)
    IN  copyFrom(shifted, Len(window) - size, block, size)

\* what the claim expects: the last W - n old samples, then the n new ones
MostRecent(window, block) ==
    SubSeq(window, Len(block) + 1, Len(window)) \o block

(***************************************************************************)
(* FFT frames and paths: a frame is a function of the window it was made   *)
(* from, a path a function of the frame.  Both queues are bounded and      *)
(* drop what does not fit.                                                 *)
(***************************************************************************)
RECURSIVE SumSeq(_)
SumSeq(q) == IF q = <<>> THEN 0 ELSE Head(q) + SumSeq(Tail(q))

\* the spectrum of a window, abstracted to one number
produceFFTData(window) == SumSeq(window)

\* the path of a spectrum
generatePath(fftData) == [points |-> fftData + 1]

EmptyPath == [points |-> 0]

QueuePush(q, x) == IF Len(q) < QueueCapacity THEN Append(q, x) ELSE q

(***************************************************************************)
(* juce::Atomic<bool>::compareAndSetBool (newValue, valueToCompare): sets  *)
(* the value to newValue if it is valueToCompare, in one step, and says    *)
(* whether it did.                                                         *)
(***************************************************************************)
compareAndSetBool(cur, newValue, valueToCompare) ==
    [swapped |-> cur = valueToCompare,
     value |-> IF cur = valueToCompare THEN newValue ELSE cur]

(***************************************************************************)
(* paint's response curve: per evaluated frequency the product, from       *)
(* unity, of the magnitudes of the sections that are not bypassed, in      *)
(* decibels (tenths of a decibel here).                                    *)
(***************************************************************************)
FreqIdx == 0..(NumFreqs - 1)

RECURSIVE Pow2(_)
Pow2(n) == IF n = 0 THEN 1 ELSE 2 * Pow2(n - 1)

\* log-spaced frequencies from 20 Hz up: a constant ratio between columns
mapToLog10(i) == 20 * Pow2(i)

\* the magnitude of a coefficient set at a frequency, a gain in {1, 2, 3}
getMagnitudeForFrequency(coef, freq) == 1 + ((coef.b0 + freq \div 20) % 3)

RECURSIVE FactorCount(_, _)
FactorCount(g, p) ==
    IF g > 0 /\ g % p = 0 THEN 1 + FactorCount(g \div p, p) ELSE 0

\* 20 log10 (gain), floored at -100 dB, in tenths of a decibel, for the
\* gains 2^a 3^b that products of section magnitudes are
gainToDecibels(gain) ==
    IF gain > 0
    THEN Max(-1000, 60 * FactorCount(gain, 2) + 95 * FactorCount(gain, 3))
    ELSE -1000

\* a section multiplies mag regardless of its bypass flag
StageFactorIgnoringBypass(ch, hp, sec, freq) ==
    getMagnitudeForFrequency(hp[SectionHandle(ch, sec)], freq)

\* if (! isBypassed<sec>()) mag *= coefficients->getMagnitudeForFrequency
StageFactor(ch, hp, sec, freq) ==
    IF ~SectionBypassed(ch, sec)
    THEN getMagnitudeForFrequency(hp[SectionHandle(ch, sec)], freq)
    ELSE 1

\* lines 277-299, in the order of the code
MagnitudeAt(ch, hp, freq) ==
    1 * StageFactor(ch, hp, <<"Peak", 0>>, freq)
      * StageFactor(ch, hp, <<"LowCut", 0>>, freq)
      * StageFactor(ch, hp, <<"LowCut", 1>>, freq)
      * StageFactor(ch, hp, <<"LowCut", 2>>, freq)
      * StageFactor(ch, hp, <<"LowCut", 3>>, freq)
      * StageFactor(ch, hp, <<"HighCut", 0>>, freq)
      * StageFactor(ch, hp, <<"HighCut", 1>>, freq)
      * StageFactor(ch, hp, <<"HighCut", 2>>, freq)
      * StageFactor(ch, hp, <<"HighCut", 3>>, freq)

ResponseCurve(ch, hp) ==
    [i \in FreqIdx |-> gainToDecibels(MagnitudeAt(ch, hp, mapToLog10(i)))]

(***************************************************************************)
(* The state after construction: the constructor has run updateChain on    *)
(* the initial parameter values and started the timer.                     *)
(***************************************************************************)
InitChain == updateChain(ConstructedChain, getChainSettings(DefaultSettings))

\* the timer has not fired yet
InitTimer ==
    /\ tpc = "idle"
    /\ tch = 1
    /\ tempBuffer = <<>>

\* the windows are cleared, nothing has been painted
InitAnalysis ==
    /\ monoBuffer = [c \in Channels |-> [i \in 1..WindowLen |-> 0]]
    /\ repaintPending = FALSE

InitRest ==
    /\ chainSettings = DefaultSettings
    /\ fifoBuf = [c \in Channels |-> [k \in 0..(FifoCapacity - 1) |-> EmptyBlock]]
    /\ fifoWrite = [c \in Channels |-> 0]
    /\ fifoRead = [c \in Channels |-> 0]
    /\ fftQueue = [c \in Channels |-> <<>>]
    /\ pathQueue = [c \in Channels |-> <<>>]
    /\ fftPath = [c \in Channels |-> EmptyPath]
    /\ mags = <<>>
    /\ apc = "idle"
    /\ ach = 1
    /\ ablock = EmptyBlock
    /\ nextBlock = 1
    /\ cpc = "idle"
    /\ nChanges = 0
    /\ rpc = "idle"
    /\ rdSec = <<"Peak", 0>>
    /\ rdPtr = 0
    /\ rdCoef = NoObject
    /\ nReads = 0
    /\ rdAtLoad = NoObject
    /\ notifications = 0
    /\ recomputes = 0
    /\ notifiedSinceClear = FALSE
    /\ pushedOK = [c \in Channels |-> <<>>]
    /\ popped = [c \in Channels |-> <<>>]
    /\ pushedAtEntry = 0

Init ==
    /\ limits \in Workloads
    /\ apvts = DefaultSettings
    /\ parametersChanged = FALSE
    /\ monoChain = InitChain.ch
    /\ coefHeap = InitChain.hp
    /\ InitTimer
    /\ InitAnalysis
    /\ InitRest

(***************************************************************************)
(* A parameter change: the value is stored, then the listener is told.     *)
(***************************************************************************)
setParameter ==
    /\ cpc = "idle"
    /\ nChanges < limits.changes
    /\ \E cs \in ChainSettings :
          /\ Cardinality({f \in DOMAIN cs : cs[f] # apvts[f]}) = 1
          /\ apvts' = cs
    /\ cpc' = "notify"
    /\ nChanges' = nChanges + 1
    /\ UNCHANGED <<parametersChanged, chainVars, timerVars, fifoVars,
                   analysisVars, paintVars, audioVars, limits, readerVars,
                   histVars>>

\* the listener is told and the flag is left as it is
parameterValueChangedNoSet ==
    /\ cpc = "notify"
    /\ cpc' = "idle"
    /\ notifications' = notifications + 1
    /\ notifiedSinceClear' = TRUE
    /\ UNCHANGED <<flagVars, chainVars, timerVars, fifoVars, analysisVars,
                   paintVars, audioVars, nChanges, limits, readerVars,
                   recomputes, pushedOK, popped, pushedAtEntry>>

\* lines 184-187
parameterValueChanged ==
    /\ cpc = "notify"
    /\ parametersChanged' = TRUE
    /\ cpc' = "idle"
    /\ notifications' = notifications + 1
    /\ notifiedSinceClear' = TRUE
    /\ UNCHANGED <<apvts, chainVars, timerVars, fifoVars, analysisVars,
                   paintVars, audioVars, nChanges, limits, readerVars,
                   recomputes, pushedOK, popped, pushedAtEntry>>

(***************************************************************************)
(* The audio callback: one block for the left FIFO, then one for the       *)
(* right.  A push checks for room and fills the slot, then advances the    *)
(* write index; into a full FIFO it returns false and the block is gone.   *)
(***************************************************************************)
AudioNext ==
    IF ach < NumChannels
    THEN apc' = "push" /\ ach' = ach + 1
    ELSE apc' = "idle" /\ ach' = 1

processBlock ==
    /\ apc = "idle"
    /\ nextBlock <= limits.blocks
    /\ ablock' = Block(nextBlock)
    /\ nextBlock' = nextBlock + 1
    /\ apc' = "push"
    /\ ach' = 1
    /\ UNCHANGED <<flagVars, chainVars, timerVars, fifoVars, analysisVars,
                   paintVars, changerVars, readerVars,
                   histVars>>

\* a push that does not look for room: the block is written and the write
\* index advanced whatever the read index is
pushFullOverwrite ==
    /\ apc = "push"
    /\ getFreeSpace(fifoWrite[ach], fifoRead[ach]) = 0
    /\ fifoBuf' = [fifoBuf EXCEPT ![ach][fifoWrite[ach]] = ablock]
    /\ apc' = "finish"
    /\ UNCHANGED <<flagVars, chainVars, timerVars, fifoWrite, fifoRead,
                   analysisVars, paintVars, ach, ablock, nextBlock,
                   changerVars, readerVars,
                   histVars>>

\* the FIFO is full: push returns false, nothing is written
pushFull ==
    /\ apc = "push"
    /\ getFreeSpace(fifoWrite[ach], fifoRead[ach]) = 0
    /\ AudioNext
    /\ UNCHANGED <<flagVars, chainVars, timerVars, fifoVars, analysisVars,
                   paintVars, ablock, nextBlock, changerVars, readerVars,
                   histVars>>

\* there is room: the block is written into the slot at the write index
pushWrite ==
    /\ apc = "push"
    /\ getFreeSpace(fifoWrite[ach], fifoRead[ach]) > 0
    /\ fifoBuf' = [fifoBuf EXCEPT ![ach][fifoWrite[ach]] = ablock]
    /\ apc' = "finish"
    /\ UNCHANGED <<flagVars, chainVars, timerVars, fifoWrite, fifoRead,
                   analysisVars, paintVars, ach, ablock, nextBlock,
                   changerVars, readerVars,
                   histVars>>

\* the write index is advanced: the block is visible to the consumer
pushFinish ==
    /\ apc = "finish"
    /\ fifoWrite' = [fifoWrite EXCEPT ![ach] = (@ + 1) % FifoCapacity]
    /\ pushedOK' = [pushedOK EXCEPT ![ach] = Append(@, ablock)]
    /\ AudioNext
    /\ UNCHANGED <<flagVars, chainVars, timerVars, fifoBuf, fifoRead,
                   analysisVars, paintVars, ablock, nextBlock, changerVars,
                   readerVars, notifications, recomputes, notifiedSinceClear, popped,
                   pushedAtEntry>>

AudioCallback == processBlock \/ pushFull \/ pushWrite \/ pushFinish

(***************************************************************************)
(* timerCallback, step by step.  PathProducer::process runs for the left   *)
(* channel, then for the right one (tch).                                  *)
(***************************************************************************)
\* lines 232-237: the timer fires; process starts with an empty tempBuffer
timerStart ==
    /\ tpc = "idle"
    /\ tpc' = "avail"
    /\ tch' = 1
    /\ tempBuffer' = <<>>
    /\ pushedAtEntry' = Len(pushedOK[fifoOf(1)])
    /\ UNCHANGED <<flagVars, chainVars, chainSettings, fifoVars, analysisVars,
                   paintVars, audioVars, changerVars, readerVars,
                   notifications, recomputes, notifiedSinceClear, pushedOK,
                   popped>>

\* the loop condition with >= 0 in the place of > 0
processAvailableAlways ==
    /\ tpc = "avail"
    /\ tpc' = IF getNumCompleteBuffersAvailable(fifoWrite[fifoOf(tch)],
                                                fifoRead[fifoOf(tch)]) >= 0
              THEN "pull" ELSE "fft"
    /\ UNCHANGED <<flagVars, chainVars, tch, chainSettings, tempBuffer,
                   fifoVars, analysisVars, paintVars, audioVars, changerVars,
                   readerVars, histVars>>

\* line 192: while (getNumCompleteBuffersAvailable() > 0)
processAvailable ==
    /\ tpc = "avail"
    /\ tpc' = IF getNumCompleteBuffersAvailable(fifoWrite[fifoOf(tch)],
                                                fifoRead[fifoOf(tch)]) > 0
              THEN "pull" ELSE "fft"
    /\ UNCHANGED <<flagVars, chainVars, tch, chainSettings, tempBuffer,
                   fifoVars, analysisVars, paintVars, audioVars, changerVars,
                   readerVars, histVars>>

\* line 194, getAudioBuffer: with a block ready, the slot at the read
\* index is copied into tempBuffer; with none it returns false
processPull ==
    /\ tpc = "pull"
    /\ IF getNumCompleteBuffersAvailable(fifoWrite[fifoOf(tch)],
                                         fifoRead[fifoOf(tch)]) > 0
       THEN /\ tempBuffer' = fifoBuf[fifoOf(tch)][fifoRead[fifoOf(tch)]]
            /\ tpc' = "pulled"
       ELSE /\ tempBuffer' = tempBuffer
            /\ tpc' = "avail"
    /\ UNCHANGED <<flagVars, chainVars, tch, chainSettings, fifoVars,
                   analysisVars, paintVars, audioVars, changerVars, readerVars,
                   histVars>>

\* line 194, getAudioBuffer: the read index is advanced, it returns true
processPullFinish ==
    /\ tpc = "pulled"
    /\ fifoRead' = [fifoRead EXCEPT ![fifoOf(tch)] = (@ + 1) % FifoCapacity]
    /\ popped' = [popped EXCEPT ![tch] = Append(@, tempBuffer)]
    /\ tpc' = "window"
    /\ UNCHANGED <<flagVars, chainVars, tch, chainSettings, tempBuffer,
                   fifoBuf, fifoWrite, analysisVars, paintVars, audioVars,
                   changerVars, readerVars,
                   notifications, recomputes,
                   notifiedSinceClear, pushedOK, pushedAtEntry>>

\* lines 196-205: the block goes into the window, a frame is produced
processWindow ==
    /\ tpc = "window"
    /\ \E order \in CopyOrders :
          LET window == shiftAndAppend(monoBuffer[tch], tempBuffer, order)
          IN  /\ monoBuffer' = [monoBuffer EXCEPT ![tch] = window]
              /\ fftQueue' = [fftQueue EXCEPT
                                ![tch] = QueuePush(@, produceFFTData(window))]
    /\ tpc' = "avail"
    /\ UNCHANGED <<flagVars, chainVars, tch, chainSettings, tempBuffer,
                   fifoVars, pathQueue, fftPath, paintVars, audioVars,
                   changerVars, readerVars,
                   histVars>>

\* an if in the place of the while: at most one frame is pulled per call
processFFTOnce ==
    /\ tpc = "fft"
    /\ IF Len(fftQueue[tch]) > 0
       THEN /\ fftQueue' = [fftQueue EXCEPT ![tch] = Tail(@)]
            /\ pathQueue' = [pathQueue EXCEPT
                               ![tch] = QueuePush(@, generatePath(Head(fftQueue[tch])))]
       ELSE UNCHANGED <<fftQueue, pathQueue>>
    /\ tpc' = "path"
    /\ UNCHANGED <<flagVars, chainVars, tch, chainSettings, tempBuffer,
                   fifoVars, monoBuffer, fftPath, paintVars, audioVars,
                   changerVars, readerVars,
                   histVars>>

\* lines 213-224: one frame is pulled and its path generated, or the loop
\* ends
processFFT ==
    /\ tpc = "fft"
    /\ IF Len(fftQueue[tch]) > 0
       THEN /\ fftQueue' = [fftQueue EXCEPT ![tch] = Tail(@)]
            /\ pathQueue' = [pathQueue EXCEPT
                               ![tch] = QueuePush(@, generatePath(Head(fftQueue[tch])))]
            /\ tpc' = "fft"
       ELSE /\ UNCHANGED <<fftQueue, pathQueue>>
            /\ tpc' = "path"
    /\ UNCHANGED <<flagVars, chainVars, tch, chainSettings, tempBuffer,
                   fifoVars, monoBuffer, fftPath, paintVars, audioVars,
                   changerVars, readerVars,
                   histVars>>

\* lines 226-230: one path is pulled, or the loop ends and process returns
processPath ==
    /\ tpc = "path"
    /\ IF Len(pathQueue[tch]) > 0
       THEN /\ fftPath' = [fftPath EXCEPT ![tch] = Head(pathQueue[tch])]
            /\ pathQueue' = [pathQueue EXCEPT ![tch] = Tail(@)]
            /\ UNCHANGED <<tpc, tch, tempBuffer, pushedAtEntry>>
       ELSE /\ UNCHANGED <<fftPath, pathQueue>>
            /\ tempBuffer' = <<>>
            /\ IF tch < NumChannels
               THEN /\ tpc' = "avail"
                    /\ tch' = tch + 1
                    /\ pushedAtEntry' = Len(pushedOK[fifoOf(tch + 1)])
               ELSE /\ tpc' = "cas"
                    /\ tch' = 1
                    /\ pushedAtEntry' = 0
    /\ UNCHANGED <<flagVars, chainVars, chainSettings, fifoVars, monoBuffer,
                   fftQueue, paintVars, audioVars, changerVars, readerVars,
                   notifications, recomputes, notifiedSinceClear, pushedOK,
                   popped>>

process ==
    \/ processAvailable
    \/ processPull
    \/ processPullFinish
    \/ processWindow
    \/ processFFT
    \/ processPath

\* the flag is cleared and updateChain run whatever the flag was
timerCasAlways ==
    /\ tpc = "cas"
    /\ parametersChanged' = FALSE
    /\ tpc' = "settings"
    /\ recomputes' = recomputes + 1
    /\ notifiedSinceClear' = FALSE
    /\ UNCHANGED <<apvts, chainVars, tch, chainSettings, tempBuffer, fifoVars,
                   analysisVars, paintVars, audioVars, changerVars,
                   readerVars, notifications, pushedOK, popped, pushedAtEntry>>

\* line 240: if (parametersChanged.compareAndSetBool (false, true))
timerCas ==
    /\ tpc = "cas"
    /\ LET r == compareAndSetBool(parametersChanged, FALSE, TRUE)
       IN  /\ parametersChanged' = r.value
           /\ IF r.swapped
              THEN /\ tpc' = "settings"
                   /\ recomputes' = recomputes + 1
                   /\ notifiedSinceClear' = FALSE
              ELSE /\ tpc' = "repaint"
                   /\ UNCHANGED <<recomputes, notifiedSinceClear>>
    /\ UNCHANGED <<apvts, chainVars, tch, chainSettings, tempBuffer, fifoVars,
                   analysisVars, paintVars, audioVars, changerVars,
                   readerVars, notifications, pushedOK, popped, pushedAtEntry>>

\* updateChain that also clears the rolling windows
updateChainSettingsClearingWindows ==
    /\ tpc = "settings"
    /\ chainSettings' = getChainSettings(apvts)
    /\ monoBuffer' = [c \in Channels |-> [i \in 1..WindowLen |-> 0]]
    /\ tpc' = "peak"
    /\ UNCHANGED <<flagVars, chainVars, tch, tempBuffer, fifoVars,
                   fftQueue, pathQueue, fftPath, paintVars, audioVars,
                   changerVars, readerVars, histVars>>

\* line 251: auto chainSettings = getChainSettings (audioProcessor.apvts)
updateChainSettings ==
    /\ tpc = "settings"
    /\ chainSettings' = getChainSettings(apvts)
    /\ tpc' = "peak"
    /\ UNCHANGED <<flagVars, chainVars, tch, tempBuffer, fifoVars,
                   analysisVars, paintVars, audioVars, changerVars, readerVars,
                   histVars>>

ChainState ==
    [ch |-> monoChain, hp |-> coefHeap,
     pin |-> IF rdPtr = 0 THEN {} ELSE {rdPtr}]

\* lines 252-253
updateChainPeak ==
    /\ tpc = "peak"
    /\ \E st \in {UpdatePeak(ChainState, chainSettings)} :
          monoChain' = st.ch /\ coefHeap' = st.hp
    /\ tpc' = "lowcut"
    /\ UNCHANGED <<flagVars, tch, chainSettings, tempBuffer, fifoVars,
                   analysisVars, paintVars, audioVars, changerVars, readerVars,
                   histVars>>

\* lines 254-255
updateChainLowCut ==
    /\ tpc = "lowcut"
    /\ \E st \in {UpdateLowCut(ChainState, chainSettings)} :
          monoChain' = st.ch /\ coefHeap' = st.hp
    /\ tpc' = "highcut"
    /\ UNCHANGED <<flagVars, tch, chainSettings, tempBuffer, fifoVars,
                   analysisVars, paintVars, audioVars, changerVars, readerVars,
                   histVars>>

\* lines 256-257
updateChainHighCut ==
    /\ tpc = "highcut"
    /\ \E st \in {UpdateHighCut(ChainState, chainSettings)} :
          monoChain' = st.ch /\ coefHeap' = st.hp
    /\ tpc' = "repaint"
    /\ chainSettings' = DefaultSettings
    /\ UNCHANGED <<flagVars, tch, tempBuffer, fifoVars,
                   analysisVars, paintVars, audioVars, changerVars, readerVars,
                   histVars>>

\* line 246: repaint(), and timerCallback returns
timerRepaint ==
    /\ tpc = "repaint"
    /\ repaintPending' = TRUE
    /\ tpc' = "idle"
    /\ UNCHANGED <<flagVars, chainVars, tch, chainSettings, tempBuffer,
                   fifoVars, analysisVars, mags, audioVars, changerVars,
                   readerVars, histVars>>

timerCallback ==
    \/ timerStart
    \/ process
    \/ timerCas
    \/ updateChainSettings
    \/ updateChainPeak
    \/ updateChainLowCut
    \/ updateChainHighCut
    \/ timerRepaint

\* lines 260-302: paint runs on the message thread, between timer callbacks
paint ==
    /\ tpc = "idle"
    /\ repaintPending
    /\ mags' = ResponseCurve(monoChain, coefHeap)
    /\ repaintPending' = FALSE
    /\ UNCHANGED <<flagVars, chainVars, timerVars, fifoVars, analysisVars,
                   audioVars, changerVars, readerVars,
                   histVars>>

(***************************************************************************)
(* A concurrent reader of one filter section: it loads the section's       *)
(* handle and then reads the object's values one after the other.  The     *)
(* object it reads is not reclaimed while it reads.                        *)
(***************************************************************************)
readerLoad ==
    /\ rpc = "idle"
    /\ nReads < limits.reads
    /\ \E sec \in Sections :
          /\ rdSec' = sec
          /\ rdPtr' = SectionHandle(monoChain, sec)
          /\ rdAtLoad' = coefHeap[SectionHandle(monoChain, sec)]
    /\ rdCoef' = NoObject
    /\ nReads' = nReads + 1
    /\ rpc' = "b0"
    /\ UNCHANGED <<flagVars, chainVars, timerVars, fifoVars, analysisVars,
                   paintVars, audioVars, changerVars, histVars>>

readerB0 ==
    /\ rpc = "b0"
    /\ rdCoef' = [rdCoef EXCEPT !.b0 = coefHeap[rdPtr].b0]
    /\ rpc' = "a1"
    /\ UNCHANGED <<flagVars, chainVars, timerVars, fifoVars, analysisVars,
                   paintVars, audioVars, changerVars, rdSec, rdPtr, nReads,
                   rdAtLoad, histVars>>

readerA1 ==
    /\ rpc = "a1"
    /\ rdCoef' = [rdCoef EXCEPT !.a1 = coefHeap[rdPtr].a1]
    /\ rpc' = "done"
    /\ UNCHANGED <<flagVars, chainVars, timerVars, fifoVars, analysisVars,
                   paintVars, audioVars, changerVars, rdSec, rdPtr, nReads,
                   rdAtLoad, histVars>>

\* the reader lets go of the object
readerDone ==
    /\ rpc = "done"
    /\ rpc' = "idle"
    /\ rdPtr' = 0
    /\ rdSec' = <<"Peak", 0>>
    /\ rdCoef' = NoObject
    /\ rdAtLoad' = NoObject
    /\ coefHeap' = Release([ch |-> monoChain, hp |-> coefHeap, pin |-> {}]).hp
    /\ UNCHANGED <<flagVars, monoChain, timerVars, fifoVars, analysisVars,
                   paintVars, audioVars, changerVars, nReads, histVars>>

Reader == readerLoad \/ readerB0 \/ readerA1 \/ readerDone

Next ==
    \/ setParameter
    \/ parameterValueChanged
    \/ AudioCallback
    \/ timerCallback
    \/ paint
    \/ Reader

Spec == Init /\ [][Next]_vars

(***************************************************************************)
(* The timer runs on the message loop for as long as the editor exists:    *)
(* a step of timerCallback that can be taken is taken.  A thread that has  *)
(* stored a parameter value goes on to tell the listeners.                 *)
(***************************************************************************)
FairSpec ==
    /\ Spec
    /\ WF_vars(timerCallback)
    /\ WF_vars(parameterValueChanged)

\* a step of the timer thread that is part of updateChain
UpdateChainStep ==
    /\ tpc \in {"settings", "peak", "lowcut", "highcut"}
    /\ tpc' # tpc

\* the step of timerCallback in which the compare-and-set succeeds
CasSucceeds == tpc = "cas" /\ tpc' = "settings"

(***************************************************************************)
(* C1.  The flag goes from dirty to clean only in timerCallback's          *)
(* compare-and-set; timerCallback starts updateChain only when that        *)
(* compare-and-set succeeded, which takes a notification since the last    *)
(* clear; so the timer never recomputes more often than parameters were    *)
(* notified, and a pending notification is one not yet recomputed for.     *)
(***************************************************************************)
C1_RecomputesBounded ==
    /\ [](recomputes + (IF parametersChanged THEN 1 ELSE 0) <= notifications)
    /\ [][(parametersChanged /\ ~parametersChanged') => CasSucceeds]_vars
    /\ [][(tpc' = "settings" /\ tpc # "settings")
            => (CasSucceeds /\ parametersChanged /\ notifiedSinceClear
                /\ ~parametersChanged' /\ recomputes' = recomputes + 1)]_vars
    /\ [][(tpc = "cas" /\ tpc' # "cas" /\ ~notifiedSinceClear)
            => (tpc' = "repaint" /\ recomputes' = recomputes)]_vars

\* every change was recomputed for, and a later tick found the flag clean
C1_Witness ==
    /\ notifications = MaxChanges
    /\ recomputes = MaxChanges
    /\ ~notifiedSinceClear
    /\ tpc = "repaint"
    /\ ~parametersChanged

\* the chain holds what the factory makes of the settings cs: the peak
\* section and the active cut sections their coefficients, the cut
\* sections above the slope bypassed
ChainMatches(cs) ==
    /\ coefHeap[monoChain.peak] = makePeakFilter(cs)
    /\ \A i \in CutIdx :
          /\ monoChain.lowCutBypassed[i] = (i > cs.lowCutSlope)
          /\ i <= cs.lowCutSlope =>
                coefHeap[monoChain.lowCut[i]] = makeLowCutFilter(cs)[i + 1]
          /\ monoChain.highCutBypassed[i] = (i > cs.highCutSlope)
          /\ i <= cs.highCutSlope =>
                coefHeap[monoChain.highCut[i]] = makeHighCutFilter(cs)[i + 1]

\* the listener's notification
Notifies == cpc = "notify" /\ cpc' = "idle"

(***************************************************************************)
(* C2.  No parameter change is lost.  Every notification leaves the flag   *)
(* dirty, whatever the timer is doing; a dirty flag leads to a read of the *)
(* settings by updateChain; with the flag clean, no updateChain under way  *)
(* and no notification outstanding the chain holds the coefficients of the *)
(* current parameter values; and in the end it holds them for good.        *)
(***************************************************************************)
C2_NoChangeLost ==
    /\ [][Notifies => parametersChanged']_vars
    /\ []((~parametersChanged /\ cpc = "idle"
           /\ tpc \notin {"settings", "peak", "lowcut", "highcut"})
          => ChainMatches(apvts))
    /\ (parametersChanged ~> (tpc = "settings"))
    /\ <>[]ChainMatches(apvts)

\* every change was notified and recomputed for, and the chain now holds
\* the coefficients of the final values
C2_Witness ==
    /\ recomputes = MaxChanges
    /\ notifications = MaxChanges
    /\ nChanges = MaxChanges
    /\ apvts # DefaultSettings
    /\ tpc = "repaint"
    /\ ~parametersChanged
    /\ ChainMatches(apvts)

\* the blocks of FIFO f pushed and not yet popped, oldest first
UnreadOf(f) == Unread(fifoBuf[f], fifoWrite[f], fifoRead[f])

(***************************************************************************)
(* C3.  One producer, one consumer per FIFO: at every moment the blocks    *)
(* channel c's consumer has popped, followed by the blocks still unread in *)
(* its FIFO, are the blocks whose push into that FIFO succeeded, in push   *)
(* order; a write index changes only in the producer's pushFinish and a    *)
(* read index only in the consumer's processPullFinish.                    *)
(***************************************************************************)
C3_FifoSequence ==
    /\ [](\A c \in Channels : popped[c] \o UnreadOf(c) = pushedOK[c])
    /\ [][fifoWrite' # fifoWrite => pushFinish]_vars
    /\ [][fifoRead' # fifoRead => processPullFinish]_vars

\* every block was pushed with success and popped, on both channels
C3_Witness ==
    \A c \in Channels :
        /\ Len(popped[c]) = MaxBlocks
        /\ popped[c] = pushedOK[c]
        /\ popped[c] = [k \in 1..MaxBlocks |-> Block(k)]

\* the producer is about to push into a FIFO with capacity - 1 unread blocks
PushIntoFull ==
    /\ apc = "push"
    /\ getNumCompleteBuffersAvailable(fifoWrite[ach], fifoRead[ach])
         = FifoCapacity - 1

(***************************************************************************)
(* C4.  A push into a full FIFO fails at once: the producer's step leaves  *)
(* the slots, the write index, the read index and the record of pushed     *)
(* blocks as they were, does not go on to advance the write index, and     *)
(* moves on to the next channel without a retry; the unread blocks are     *)
(* the ones that were there before.                                        *)
(***************************************************************************)
C4_FullPushFails ==
    [][(PushIntoFull /\ <<apc, ach>>' # <<apc, ach>>)
         => /\ UNCHANGED <<fifoBuf, fifoWrite, fifoRead, pushedOK>>
            /\ \A c \in Channels : UnreadOf(c)' = UnreadOf(c)
            /\ apc' # "finish"
            /\ AudioNext]_vars

\* a push failed on both channels (a block was dropped) and the consumers
\* then popped the capacity - 1 blocks that were in the FIFO before it
C4_Witness ==
    /\ apc = "idle"
    /\ nextBlock = FifoCapacity + 1
    /\ \A c \in Channels :
          /\ Len(pushedOK[c]) = FifoCapacity - 1
          /\ popped[c] = [k \in 1..(FifoCapacity - 1) |-> Block(k)]
          /\ UnreadOf(c) = <<>>

(***************************************************************************)
(* C5.  What a reader of one section has read when it is done, value by    *)
(* value, is the coefficient set that the section held when the reader     *)
(* loaded its handle: a complete set made by the factory, whatever         *)
(* updateChain published in the meantime.                                  *)
(***************************************************************************)
C5_SwapAtomic ==
    rpc = "done" => (rdCoef \in CompleteSets /\ rdCoef = rdAtLoad)

\* the reader read a whole set while updateChain published a new one for
\* the same section
C5_Witness ==
    /\ rpc = "done"
    /\ rdCoef = rdAtLoad
    /\ coefHeap[SectionHandle(monoChain, rdSec)] # rdCoef
    /\ recomputes > 0

(***************************************************************************)
(* The rolling window on its own: any window of up to MaxWindowLen         *)
(* samples, any popped block no longer than the window, and the step of    *)
(* process that puts the block into the window.                            *)
(***************************************************************************)
MaxWindowLen == 3
MaxSample == 1

Samples == 0..MaxSample

WindowInit ==
    /\ limits \in Workloads
    /\ limits.blocks > 0
    /\ apvts = DefaultSettings
    /\ parametersChanged = FALSE
    /\ monoChain = InitChain.ch
    /\ coefHeap = InitChain.hp
    /\ tpc = "window"
    /\ tch \in Channels
    /\ repaintPending = FALSE
    /\ \E w \in 1..MaxWindowLen : \E n \in 0..w :
          /\ tempBuffer \in [1..n -> Samples]
          /\ \E window \in [1..w -> Samples] :
                monoBuffer = [c \in Channels |->
                    IF c = tch THEN window ELSE [i \in 1..WindowLen |-> 0]]
    /\ InitRest

WindowSpec == WindowInit /\ [][processWindow]_vars

DisjointRanges(window, block) == 2 * Len(block) >= Len(window)

\* with ranges that do not overlap the window is the most recent samples
C6_DisjointRangesMostRecent ==
    [][(tpc = "window" /\ tpc' # "window"
        /\ DisjointRanges(monoBuffer[tch], tempBuffer))
         => monoBuffer'[tch] = MostRecent(monoBuffer[tch], tempBuffer)]_vars

(***************************************************************************)
(* paint on its own: a chain with any bypass flags and coefficient         *)
(* objects of the factory, a repaint pending.                              *)
(***************************************************************************)
PaintInit ==
    /\ limits \in Workloads
    /\ limits.changes > 1
    /\ apvts = DefaultSettings
    /\ parametersChanged = FALSE
    /\ \E p \in BOOLEAN : \E l \in [CutIdx -> BOOLEAN] :
       \E h \in [CutIdx -> BOOLEAN] :
          monoChain = [ConstructedChain.ch EXCEPT !.peakBypassed = p,
                                                 !.lowCutBypassed = l,
                                                 !.highCutBypassed = h]
    /\ \E g \in 0..MaxGain :
          coefHeap = [k \in Handles |->
                        IF k \in ChainHandles(ConstructedChain.ch)
                        THEN Coefficients(g + k) ELSE NoObject]
    /\ InitTimer
    /\ monoBuffer = [c \in Channels |-> [i \in 1..WindowLen |-> 0]]
    /\ repaintPending = TRUE
    /\ InitRest

PaintSpec == PaintInit /\ [][paint]_vars

\* the sections of the chain that are not bypassed
ActiveSections(ch) == {sec \in Sections : ~SectionBypassed(ch, sec)}

RECURSIVE MagnitudeProduct(_, _, _, _)
\* the product of the magnitudes of the sections in S, from unity
MagnitudeProduct(S, ch, hp, freq) ==
    IF S = {} THEN 1
    ELSE LET sec == CHOOSE x \in S : TRUE
         IN  getMagnitudeForFrequency(hp[SectionHandle(ch, sec)], freq)
               * MagnitudeProduct(S \ {sec}, ch, hp, freq)

(***************************************************************************)
(* C7.  At every frequency paint evaluates, the response it computes is    *)
(* the decibel value of the product, from unity, of the magnitudes of      *)
(* exactly the sections that are not bypassed; with every section          *)
(* bypassed it is 0 dB at every frequency.                                 *)
(***************************************************************************)
C7_ResponseProduct ==
    [][(repaintPending /\ ~repaintPending')
         => /\ DOMAIN mags' = FreqIdx
            /\ \A i \in FreqIdx :
                  mags'[i] = gainToDecibels(
                      MagnitudeProduct(ActiveSections(monoChain), monoChain,
                                       coefHeap, mapToLog10(i)))
            /\ (ActiveSections(monoChain) = {}
                  => \A i \in FreqIdx : mags'[i] = 0)]_vars

\* paint has run on a chain with every section bypassed, whose sections
\* would not all have had magnitude 1
C7_Witness ==
    /\ ~repaintPending
    /\ ActiveSections(monoChain) = {}
    /\ DOMAIN mags = FreqIdx
    /\ \A i \in FreqIdx : mags[i] = 0
    /\ \E i \in FreqIdx :
          MagnitudeProduct(Sections, monoChain, coefHeap, mapToLog10(i)) > 1

\* the step in which a call of process returns
ProcessReturns == tpc = "path" /\ tpc' # "path"

\* the last n values of a sequence
LastOf(q, n) == SubSeq(q, Len(q) - n + 1, Len(q))

(***************************************************************************)
(* C8.  When a call of process returns, its FFT-frame queue and its path   *)
(* queue are empty, and so is its sample FIFO unless the producer pushed   *)
(* into it during the call; the loops run in the order FIFO, frames,       *)
(* paths; and when a block is popped, the block popped before it is        *)
(* already the end of the rolling window.                                  *)
(***************************************************************************)
C8_DrainsInOrder ==
    /\ [][ProcessReturns
            => /\ fftQueue[tch] = <<>>
               /\ pathQueue[tch] = <<>>
               /\ (Len(pushedOK[fifoOf(tch)]) = pushedAtEntry
                     => UnreadOf(fifoOf(tch)) = <<>>)]_vars
    /\ [][(tpc' = "fft" /\ tpc # "fft")
            => (tpc = "avail" /\ fifoRead[fifoOf(tch)] = fifoWrite[fifoOf(tch)])]_vars
    /\ [][(tpc' = "path" /\ tpc # "path")
            => (tpc = "fft" /\ fftQueue[tch] = <<>>)]_vars
    /\ [][(tpc' = "pulled" /\ tpc # "pulled" /\ popped[tch] # <<>>)
            => LastOf(monoBuffer[tch], BlockLen)
                 = popped[tch][Len(popped[tch])]]_vars

\* a call that popped several blocks has made a frame and a path of each
\* and is about to drain the path queue; the producer pushed nothing
C8_Witness ==
    /\ tpc = "path"
    /\ Len(pathQueue[tch]) = QueueCapacity
    /\ fftQueue[tch] = <<>>
    /\ UnreadOf(fifoOf(tch)) = <<>>
    /\ Len(pushedOK[fifoOf(tch)]) = pushedAtEntry
    /\ Len(popped[tch]) >= QueueCapacity

(***************************************************************************)
(* C9.  The response curve does not depend on the audio.  No step but a    *)
(* step of updateChain changes the coefficients or the bypass flags of a   *)
(* section; the curve paint draws is made of those coefficients and flags  *)
(* alone; a step of updateChain leaves the FIFOs, the windows, the frame   *)
(* and path queues and the paths as they are; and a step of process        *)
(* leaves the chain as it is.                                              *)
(***************************************************************************)
C9_CurveIndependent ==
    /\ [][~UpdateChainStep
            => ChainView(monoChain', coefHeap') = ChainView(monoChain, coefHeap)]_vars
    /\ [][(repaintPending /\ ~repaintPending')
            => mags' = [i \in FreqIdx |->
                          gainToDecibels(MagnitudeProduct(
                              {sec \in Sections : ~ChainView(monoChain, coefHeap)[sec].bypassed},
                              monoChain, coefHeap, mapToLog10(i)))]]_vars
    /\ [][UpdateChainStep => UNCHANGED <<fifoVars, analysisVars, pushedOK, popped>>]_vars
    /\ [][(tpc \in {"avail", "pull", "pulled", "window", "fft", "path"}
           /\ tpc' # tpc) => UNCHANGED chainVars]_vars

\* blocks were pushed and popped and made into a path, the chain was
\* recomputed once, and the curve painted is the curve of the chain
C9_Witness ==
    /\ tpc = "idle"
    /\ recomputes = 1
    /\ \A c \in Channels : Len(popped[c]) = MaxBlocks /\ fftPath[c] # EmptyPath
    /\ ~repaintPending
    /\ mags = ResponseCurve(monoChain, coefHeap)
    /\ mags # ResponseCurve(InitChain.ch, InitChain.hp)

(***************************************************************************)
(* C10.  process terminates.  The body of the drain loop is entered only   *)
(* with a block available, and getAudioBuffer then succeeds and advances   *)
(* the read index, so every iteration pops a block; a timer tick that has  *)
(* started comes to its end, and it does so only by way of the return of   *)
(* the last call of process, the compare-and-set and repaint.              *)
(***************************************************************************)
C10_ProcessTerminates ==
    /\ [](tpc \in {"pull", "pulled"}
            => getNumCompleteBuffersAvailable(fifoWrite[fifoOf(tch)],
                                              fifoRead[fifoOf(tch)]) > 0)
    /\ [][(tpc = "pull" /\ tpc' # "pull") => tpc' = "pulled"]_vars
    /\ [][(tpc = "pulled" /\ tpc' # "pulled")
            => /\ fifoRead'[fifoOf(tch)] = (fifoRead[fifoOf(tch)] + 1) % FifoCapacity
               /\ Len(popped'[tch]) = Len(popped[tch]) + 1]_vars
    /\ [][(tpc' = "cas" /\ tpc # "cas")
            => (tpc = "path" /\ tch = NumChannels /\ pathQueue[tch] = <<>>)]_vars
    /\ [][(tpc' = "idle" /\ tpc # "idle") => tpc = "repaint"]_vars
    /\ [][(tpc' = "repaint" /\ tpc # "repaint")
            => tpc \in {"cas", "highcut"}]_vars
    /\ (tpc # "idle") ~> (tpc = "idle")

\* a tick has popped every block the producer pushed and got to repaint
C10_Witness ==
    /\ tpc = "repaint"
    /\ nextBlock = MaxBlocks + 1
    /\ \A c \in Channels : popped[c] = pushedOK[c] /\ Len(popped[c]) >= 2

\* the step in which the path producer of channel c advances a read index
PopBy(c) == tpc = "pulled" /\ tch = c /\ tpc' # "pulled"

\* what belongs to channel c: its FIFO, rolling window, queues and path
ChannelState(c) ==
    <<fifoBuf[c], fifoWrite[c], fifoRead[c], monoBuffer[c], fftQueue[c],
      pathQueue[c], fftPath[c], popped[c]>>

(***************************************************************************)
(* C11.  Each sample FIFO has one consumer.  The read index of channel     *)
(* c's FIFO moves only in a pop by the path producer of channel c, left    *)
(* for the left FIFO and right for the right one; a step of one channel's  *)
(* call of process leaves the other channel's FIFO, window, queues and     *)
(* path as they are; the right producer's call starts only at the return   *)
(* of the left one's, inside the same tick, and the tick goes on to the    *)
(* compare-and-set only at the return of the right one's.                  *)
(***************************************************************************)
C11_SingleConsumer ==
    /\ [][\A c \in Channels : fifoRead'[c] # fifoRead[c] => PopBy(c)]_vars
    /\ [][\A c \in Channels :
            (PopBy(c) => /\ fifoRead'[c] # fifoRead[c]
                         /\ Len(popped'[c]) = Len(popped[c]) + 1
                         /\ \A o \in Channels \ {c} :
                               ChannelState(o)' = ChannelState(o))]_vars
    /\ [][(tpc \in {"avail", "pull", "pulled", "window", "fft", "path"}
           /\ <<tpc, tch, fftQueue, pathQueue, fftPath>>'
                # <<tpc, tch, fftQueue, pathQueue, fftPath>>)
            => \A o \in Channels \ {tch} :
                  <<fifoRead[o], monoBuffer[o], fftQueue[o], pathQueue[o],
                    fftPath[o], popped[o]>>'
                    = <<fifoRead[o], monoBuffer[o], fftQueue[o], pathQueue[o],
                        fftPath[o], popped[o]>>]_vars
    /\ [][tch' # tch
            => /\ tpc = "path"
               /\ pathQueue[tch] = <<>>
               /\ \/ (tch < NumChannels /\ tch' = tch + 1 /\ tpc' = "avail")
                  \/ (tch = NumChannels /\ tch' = 1 /\ tpc' = "cas")]_vars
    /\ [](tpc = "idle" => tch = 1)

\* in one tick the left producer popped from the left FIFO and the right
\* producer from the right one, which the producer is filling again
C11_Witness ==
    /\ tpc = "cas"
    /\ \A c \in Channels : popped[c] = <<Block(1)>> /\ fifoRead[c] = 1
    /\ pushedAtEntry = 0
    /\ apc = "finish"
    /\ ach = NumChannels
    /\ nextBlock = 3

====
